---- MODULE Spec2Model ----
(***************************************************************************)
(* A model of uiblack's terminal engine (src/uiblack/terminal.py, class    *)
(* UIBlackTerminal): the clipped writer print(), the pane geometry         *)
(* _get_dimensions(), the two scrollback buffers filled by console(), the  *)
(* refresh controller _check_update() with its adaptive heuristic, the     *)
(* low-latency gate _skip_iteration(), and the prompts, which share one    *)
(* threading.Lock with _check_update().                                    *)
(*                                                                         *)
(* Specifications:                                                         *)
(*   Spec         the engine called by several threads                     *)
(*   SpecConsole  one thread writing lines, console_scrollback configured  *)
(*   SpecRefresh  one thread, the interval set and the terminal resized    *)
(*   SpecInterval one thread calling every public operation, the queue of  *)
(*                the heuristic part filled                                *)
(*   SpecPrompt   one thread in the prompts, every key pressed             *)
(*   SpecPrint    print() as a function of its arguments and the frame     *)
(*   SpecGeom     _get_dimensions() as a function of the frame and title   *)
(*   SpecRedraw   the redraw, in frames of every small height              *)
(*   SpecWrapper  one thread running callbacks under wrapper()             *)
(*   SpecLive     the threads under a fair scheduler                       *)
(*   SpecCounter  one thread, the interval never set by the caller         *)
(***************************************************************************)
EXTENDS Integers, Sequences, FiniteSets, TLC

VARIABLES
    \* ---- the terminal (blessed.Terminal as the engine reads it)
    term_width,              \* self._term.width
    term_height,             \* self._term.height
    rich,                    \* self._term.does_styling and self.rich_ui
    \* ---- the fields of UIBlackTerminal
    title,                   \* self._title: "None" or "Title"
    lock,                    \* self._lock: the thread holding it, or NoThread
    contents_console_a,      \* self._contents_console_a
    contents_console_b,      \* self._contents_console_b
    console_scrollback,      \* self.console_scrollback
    low_latency_index,       \* self._low_latency_index
    update_counter,          \* self._update_counter
    update_counter_interval, \* self.update_counter_interval, in 1/IntervalScale
    previous_height,         \* self._previous_height
    previous_width,          \* self._previous_width
    last_updates,            \* self._last_updates: datetimes, in whole seconds
    \* ---- the threads: the call each is in, where it is in it, its locals
    pc,
    frame,
    \* ---- observations (history, written by the operations, read by no guard)
    calls,                   \* how many operations have been started
    appended,                \* per pane, how many lines console() has appended
    last_cu,                 \* what the last _check_update saw and did
    print_in,                \* SpecPrint: the arguments of the print() call
    printed,                 \* SpecPrint: what that call put on the terminal
    dims,                    \* SpecGeom: what _get_dimensions returned
    screen                   \* what the last redraw put on the terminal

vars == << term_width, term_height, rich, title, lock,
           contents_console_a, contents_console_b, console_scrollback,
           low_latency_index, update_counter, update_counter_interval,
           previous_height, previous_width, last_updates,
           pc, frame, calls, appended, last_cu, print_in, printed, dims, screen >>

(***************************************************************************)
(* Bounds of the model                                                     *)
(***************************************************************************)
\* print(): the widest and tallest frame, the longest text (in tokens)
MaxWidth == 3
MaxHeight == 2
MaxTokens == 3
\* _get_dimensions(): the tallest frame
MaxGeomHeight == 24

Max(a, b) == IF a >= b THEN a ELSE b
Min(a, b) == IF a <= b THEN a ELSE b

(***************************************************************************)
(* Text.  A text is a sequence of characters.  A style (control) sequence  *)
(* is the two characters ESC, "m"; every other character is visible.       *)
(***************************************************************************)
ESC == "ESC"
StyleSeq == << ESC, "m" >>
VisibleChars == { "a", "b" }

\* self._term.strip(text): the text without its style sequences
RECURSIVE strip(_)
strip(text) ==
    IF text = << >> THEN << >>
    ELSE IF Len(text) >= 2 /\ SubSeq(text, 1, 2) = StyleSeq
         THEN strip(SubSeq(text, 3, Len(text)))
         ELSE << Head(text) >> \o strip(Tail(text))

\* _len_printable
len_printable(text) == Len(strip(text))

\* Python's text[:-trim] for trim >= 1
DropTail(text, trim) == SubSeq(text, 1, Max(0, Len(text) - trim))

(***************************************************************************)
(* print(text, right, down, ignore_log): what reaches the terminal.        *)
(* coords is "down is not None and right is not None".                     *)
(***************************************************************************)
NoWrite == [ wrote |-> FALSE, mode |-> "none", text |-> << >>, right |-> 0, down |-> 0 ]
\* before the call: nothing has been written yet
NotPrinted == [ NoWrite EXCEPT !.mode = "not called" ]
NoPrintCall == [ text |-> << >>, coords |-> FALSE, right |-> 0, down |-> 0 ]
Placed(text, right, down) ==
    [ wrote |-> TRUE, mode |-> "placed", text |-> text, right |-> right, down |-> down ]
Linear(text, mode) ==
    [ wrote |-> TRUE, mode |-> mode, text |-> text, right |-> 0, down |-> 0 ]

RowOffScreen(down, height) == down > height
ColOffScreen(right, width) == right > width

print(text, coords, right, down, width, height, isRich) ==
    IF ~isRich THEN Linear(text, "plain")
    ELSE IF ~coords THEN Linear(text, "styled")
    ELSE LET actual_len == len_printable(text)
             offset == width - right
             trim == actual_len - offset
         IN  IF RowOffScreen(down, height) THEN NoWrite
             ELSE IF ColOffScreen(right, width) THEN NoWrite
             ELSE IF right + actual_len > width /\ trim < 1 THEN NoWrite
             ELSE IF right < 0 THEN NoWrite
             ELSE IF down < 0 THEN NoWrite
             ELSE IF right + actual_len > width
                  THEN Placed(DropTail(text, trim), right, down)
                  ELSE Placed(text, right, down)

(***************************************************************************)
(* _get_dimensions(console_letter) -> (width, height, ceiling)             *)
(***************************************************************************)
\* Python's round(num / den) for num >= 0, den > 0: half goes to the even side
Round(num, den) ==
    LET q == num \div den
        r == num % den
    IN  IF 2 * r < den THEN q
        ELSE IF 2 * r > den THEN q + 1
        ELSE IF q % 2 = 0 THEN q ELSE q + 1

\* console_a_percentage = 0.75, console_b_percentage = 1 - 0.75, as quarters
console_a_quarters == 3
console_b_quarters == 4 - console_a_quarters

TitleCeiling(t) == IF t = "None" THEN 0 ELSE 1

get_dimensions(console_letter, width, height, t) ==
    LET quarters == IF console_letter = "a" THEN console_a_quarters
                    ELSE console_b_quarters
        h == Round(height * quarters, 4)
    IN  [ width |-> width,
          height |-> h,
          ceiling |-> IF console_letter = "a" THEN TitleCeiling(t)
                      ELSE height - h ]

(***************************************************************************)
(* The engine: bounds and the sets its inputs are drawn from               *)
(***************************************************************************)
\* the largest console_scrollback a run is configured with
MaxScrollback == 3
\* how many operations a thread starts in one run of SpecConsole, SpecRefresh,
\* SpecPrompt and SpecGeom
MaxCalls == 5
\* how many operations the threads start in one run of Spec
MaxThreadCalls == 3
\* how many operations the thread starts in one run of SpecInterval
MaxIntervalCalls == 4
\* self.low_latency_max as configured for a run (1000 when left alone)
LowLatencyMax == 2

Threads == { "t1", "t2" }
NoThread == "free"
Panes == { "a", "b" }
\* the frames << width, height >> the terminal takes; two of them have the
\* same width + height
TermSizes == { << 4, 5 >>, << 5, 4 >>, << 5, 5 >> }
\* seconds that may pass between two readings of datetime.now()
Elapsed == { 0, 10, 12 }
\* update_counter_interval becomes a float: it is kept in hundredths
IntervalScale == 100
\* the arguments given to set_low_latency_refresh_interval
IntervalArgs == { -1, 0, 2 }

(***************************************************************************)
(* The scrollback buffers (console, lines 410-418; _refresh_console,       *)
(* lines 238-241)                                                          *)
(***************************************************************************)
\* (a changed loop test, for C1: it lets one line too many stay)
MustEvictLate(contents, scrollback) == Len(contents) > scrollback + 1

\* the loop's test: len(contents) >= self.console_scrollback
MustEvict(contents, scrollback) == Len(contents) >= scrollback

\* while len(contents) >= self.console_scrollback: contents.pop(0)
RECURSIVE Evict(_, _)
Evict(contents, scrollback) ==
    IF MustEvict(contents, scrollback) /\ contents # << >>
    THEN Evict(Tail(contents), scrollback)
    ELSE contents

Contents(pane) == IF pane = "a" THEN contents_console_a ELSE contents_console_b

(***************************************************************************)
(* _skip_iteration(is_low_latency_enabled) -> skip?, and the index after   *)
(***************************************************************************)
\* (a gate that does not reset its index when it lets a call through, for C14)
skip_iteration_no_reset(enabled, index, max) ==
    IF enabled
    THEN IF index >= max
         THEN [ skip |-> FALSE, index |-> index ]
         ELSE [ skip |-> TRUE, index |-> index + 1 ]
    ELSE [ skip |-> FALSE, index |-> index ]

skip_iteration(enabled, index, max) ==
    IF enabled
    THEN IF index >= max
         THEN [ skip |-> FALSE, index |-> 0 ]
         ELSE [ skip |-> TRUE, index |-> index + 1 ]
    ELSE [ skip |-> FALSE, index |-> index ]

(***************************************************************************)
(* _calculate_update_heuristic                                             *)
(***************************************************************************)
heuristic_target_seconds == 10
max_last_updates == 5
last_updates_heuristic_enabled == TRUE

\* the integer square root: the largest r with r * r <= n
RECURSIVE ISqrtIn(_, _, _)
ISqrtIn(n, lo, hi) ==
    IF lo >= hi THEN lo
    ELSE LET mid == (lo + hi + 1) \div 2
         IN  IF mid * mid <= n THEN ISqrtIn(n, mid, hi) ELSE ISqrtIn(n, lo, mid - 1)
ISqrt(n) == ISqrtIn(n, 0, Min(n, 46340))

\* timedelta.seconds: the seconds of the difference, its whole days left out
Seconds(later, earlier) == (later - earlier) % 86400

\* deltas: the seconds between consecutive entries of the queue
Deltas(updates) == [ i \in 1 .. Len(updates) - 1 |-> Seconds(updates[i + 1], updates[i]) ]

RECURSIVE SumSeq(_)
SumSeq(s) == IF s = << >> THEN 0 ELSE Head(s) + SumSeq(Tail(s))

\* (a queue that is never trimmed, for C22)
TrimUpdatesNever(updates) == updates

\* while len(self._last_updates) > self._max_last_updates: pop(0)
RECURSIVE TrimUpdates(_)
TrimUpdates(updates) ==
    IF Len(updates) > max_last_updates THEN TrimUpdates(Tail(updates)) ELSE updates

\* math.sqrt(x) * factor for x = numer / denom, in 1/IntervalScale
ScaledRoot(numer, denom, factor) ==
    ISqrt((IntervalScale * factor * IntervalScale * factor * numer) \div denom)

\* (a heuristic that walks the interval down when the redraws are too far
\* apart, for C12)
AdjustIntervalDown(interval, updates) ==
    LET deltas == Deltas(updates)
        n == Len(deltas)
        total == SumSeq(deltas)
        target == heuristic_target_seconds
        grown == IF total <= target * n
                 THEN interval + ScaledRoot(target * n - total, n, 20)
                 ELSE interval - ScaledRoot(total - target * n, n, 10)
    IN  IF grown <= 0 THEN 1 * IntervalScale ELSE grown

\* the interval after lines 290-313, given the (trimmed) queue
AdjustInterval(interval, updates) ==
    LET deltas == Deltas(updates)
        n == Len(deltas)
        total == SumSeq(deltas)
        target == heuristic_target_seconds
        \* average <= target is total <= target * n, average = total / n
        grown == IF total <= target * n
                 THEN interval + ScaledRoot(target * n - total, n, 20)
                 ELSE interval + ScaledRoot(total - target * n, n, 10)
    IN  IF grown <= 0 THEN 1 * IntervalScale ELSE grown

\* the whole function: the queue and the interval it leaves
calculate_update_heuristic(interval, updates, stamp) ==
    LET appended_ == IF last_updates_heuristic_enabled
                     THEN Append(updates, stamp) ELSE updates
    IN  IF Len(appended_) < 5
        THEN [ interval |-> interval, updates |-> appended_ ]
        ELSE [ interval |-> AdjustInterval(interval, TrimUpdates(appended_)),
               updates |-> TrimUpdates(appended_) ]

(***************************************************************************)
(* Threads.  pc[t] is where thread t is:                                   *)
(*   idle        in no operation of the engine                             *)
(*   con_evict   console: the line is appended, the eviction loop is next  *)
(*   cu_acquire  _check_update: at self._lock.acquire()                    *)
(*   cu_body     _check_update: holds the lock, lines 317-334 are next     *)
(*   lb_paint    load_bar: lines 706-741, the painting of the bar          *)
(*   in_acquire, al_acquire, yn_acquire   a prompt at self._lock.acquire() *)
(*   in_loop, al_loop, yn_loop            a prompt at self._term.inkey()   *)
(* frame[t] holds the arguments and the locals of the call; when the call  *)
(* has returned, returned names it, and the frame keeps what it returned   *)
(* (result, index, choice) or did (painted) until the thread's next call.  *)
(* In input(), echo is what the call wrote to the screen last: the         *)
(* question, "got sequence: ...", the result, or the result as stars, and  *)
(* shown is the text it printed on the input row last.  In ask_list(),     *)
(* inverted is the set of the items (indices) the screen shows in reverse  *)
(* video.  val is the name of the key that ended a prompt's loop.  wrapped *)
(* says that the call is made by a callback run under wrapper().           *)
(*   wr_except   function_wrapper: in its except clause, self.error next   *)
(*   wr_check    function_wrapper: self.error is done, _check_update next  *)
(***************************************************************************)
IdleFrame ==
    [ op |-> "none", pane |-> "a", low_latency |-> FALSE, total |-> 0,
      items |-> 0, index |-> 0, result |-> << >>, max_len |-> 0,
      obfuscate |-> FALSE, choice |-> FALSE, raised |-> "none",
      returned |-> "none", painted |-> FALSE, echo |-> "none", shown |-> << >>,
      val |-> "none", inverted |-> { }, wrapped |-> FALSE ]

ReadLoopPcs == { "in_loop", "al_loop", "yn_loop" }

\* (a lock that never blocks, for C5)
CanAcquireAlways == TRUE

\* self._lock.acquire() returns only when no thread holds the lock
CanAcquire == lock = NoThread

\* (a release that is forgotten, for C30)
release_forgotten == lock

\* self._lock.release() (lines 334, 606, 682, 775): the lock after it
release == NoThread

\* a thread outside the engine starts an operation, while the run's bound allows
Start(t) ==
    /\ pc[t] = "idle"
    /\ calls < MaxCalls
    /\ calls' = calls + 1

----------------------------------------------------------------------------
(* console(text, low_latency, console=pane), lines 410-418: the append.    *)
(* The text of a line is its number among the lines appended to its pane.  *)
ConsoleAppend(t, pane, low_latency) ==
    /\ Start(t)
    /\ LET text == appended[pane] + 1
       IN  /\ IF pane = "a"
              THEN /\ contents_console_a' = Append(contents_console_a, text)
                   /\ UNCHANGED contents_console_b
              ELSE /\ contents_console_b' = Append(contents_console_b, text)
                   /\ UNCHANGED contents_console_a
           /\ appended' = [ appended EXCEPT ![pane] = text ]
    /\ pc' = [ pc EXCEPT ![t] = "con_evict" ]
    /\ frame' = [ frame EXCEPT ![t] =
                    [ IdleFrame EXCEPT !.op = "console", !.pane = pane,
                                       !.low_latency = low_latency ] ]
    /\ UNCHANGED << term_width, term_height, rich, title, lock, console_scrollback,
                    low_latency_index, update_counter, update_counter_interval,
                    previous_height, previous_width, last_updates, last_cu,
                    print_in, printed, dims,
                    screen >>

console(t) ==
    \E pane \in Panes, low_latency \in BOOLEAN :
        ConsoleAppend(t, pane, low_latency)

(* notice / warn / error (lines 425-486) at a log level that shows them:   *)
(* in rich mode console(text, False, True, **kwargs), else a plain print.  *)
notice(t) ==
    \/ /\ rich
       /\ \E pane \in Panes : ConsoleAppend(t, pane, FALSE)
    \/ /\ ~rich
       /\ Start(t)
       /\ UNCHANGED << term_width, term_height, rich, title, lock, frame,
                       contents_console_a, contents_console_b, console_scrollback,
                       low_latency_index, update_counter, update_counter_interval,
                       previous_height, previous_width, last_updates, pc, appended,
                       last_cu, print_in, printed, dims,
                    screen >>

(* console, lines 413-423: the eviction loop, then the low-latency gate,   *)
(* which either returns or goes on to _check_update.                       *)
ConsoleEvict(t) ==
    /\ pc[t] = "con_evict"
    /\ IF frame[t].pane = "a"
       THEN /\ contents_console_a' = Evict(contents_console_a, console_scrollback)
            /\ UNCHANGED contents_console_b
       ELSE /\ contents_console_b' = Evict(contents_console_b, console_scrollback)
            /\ UNCHANGED contents_console_a
    /\ LET gate == skip_iteration(frame[t].low_latency, low_latency_index,
                                  LowLatencyMax)
       IN  /\ low_latency_index' = gate.index
           /\ pc' = [ pc EXCEPT ![t] = IF gate.skip THEN "idle" ELSE "cu_acquire" ]
           /\ frame' = [ frame EXCEPT ![t] = IF gate.skip THEN IdleFrame ELSE @ ]
    /\ UNCHANGED << term_width, term_height, rich, title, lock, console_scrollback,
                    update_counter, update_counter_interval, previous_height,
                    previous_width, last_updates, calls, appended, last_cu,
                    print_in, printed, dims,
                    screen >>

----------------------------------------------------------------------------
(* _check_update, line 316: self._lock.acquire()                           *)
CheckUpdateAcquire(t) ==
    /\ pc[t] = "cu_acquire"
    /\ CanAcquire
    /\ lock' = t
    /\ pc' = [ pc EXCEPT ![t] = "cu_body" ]
    /\ UNCHANGED << term_width, term_height, rich, title, contents_console_a,
                    contents_console_b, console_scrollback, low_latency_index,
                    update_counter, update_counter_interval, previous_height,
                    previous_width, last_updates, frame, calls, appended, last_cu,
                    print_in, printed, dims,
                    screen >>

\* (a test the counter passes only beyond the interval, for C31)
IntervalReachedBeyond(counter, interval) == counter * IntervalScale > interval

\* line 320: self._update_counter >= self.update_counter_interval
IntervalReached(counter, interval) == counter * IntervalScale >= interval

\* lines 318-319 and 328: current_total != previous_total
SawResize(prev_height, prev_width, height, width) ==
    height + width # prev_height + prev_width

\* (line 328 as an if, for C9: the resize branch whatever line 320 found)
ResizeBranchAsIf(reached, resized) == resized

\* line 328 is an elif: the resize branch is tried only when line 320 failed
ResizeBranch(reached, resized) == ~reached /\ resized

\* (a counter that no redraw resets, for C11)
CounterAfterNoReset(counter, interval_redraw) == counter

\* lines 317 and 322: the counter is incremented by every call, and set to 0
\* on the interval path only
CounterAfter(counter, interval_redraw) == IF interval_redraw THEN 0 ELSE counter

\* (a call that moves the interval off the interval path too, for C13)
IntervalAfterAnyCall(interval, tuned, interval_redraw, resize_redraw) ==
    IF interval_redraw THEN tuned ELSE interval + 1

\* line 327: _calculate_update_heuristic runs on the interval path only
IntervalAfter(interval, tuned, interval_redraw, resize_redraw) ==
    IF interval_redraw THEN tuned ELSE interval

\* where the caller of _check_update goes on
AfterCheckUpdate(op) ==
    CASE op = "load_bar" -> "lb_paint"
      [] op = "input" -> "in_acquire"
      [] op = "ask_list" -> "al_acquire"
      [] op = "ask_yn" -> "yn_acquire"
      [] op = "wrapper_error" -> "wr_check"
      [] OTHER -> "idle"

(***************************************************************************)
(* The redraw: clear(), _display_main_title() and _refresh_consoles()      *)
(* (lines 323-325 and 331-333).  What it puts on the terminal: the rows    *)
(* the title and the divider are written on, and for each pane the lines   *)
(* handed to print(), in the order of the loop, each with its row and with *)
(* what print() did with it.                                               *)
(***************************************************************************)
NoScreen ==
    [ drawn |-> FALSE, title |-> { }, divider |-> { }, a |-> << >>, b |-> << >> ]

Repeat(c, n) == [ i \in 1 .. Max(0, n) |-> c ]

\* the rows a text handed to print() at column 0 is placed on
RowsWritten(text, down, width, height, isRich) ==
    LET out == print(text, TRUE, 0, down, width, height, isRich)
    IN  IF out.mode = "placed" THEN { out.down } ELSE { }

\* _display_main_title, lines 609-622: in rich mode and with a title, a blank
\* row and the title are printed on row 0
display_main_title(width, height, t, isRich) ==
    IF ~isRich \/ t = "None" THEN { }
    ELSE RowsWritten(Repeat(" ", width), 0, width, height, isRich)

\* _horiz_divider_dimensions, lines 206-209
horiz_divider_dimensions(width, height, t) ==
    LET b == get_dimensions("b", width, height, t)
    IN  [ width |-> b.width, divider_height |-> b.ceiling - 1 ]

\* _draw_divider, lines 211-218
draw_divider(width, height, t, isRich) ==
    IF isRich
    THEN LET d == horiz_divider_dimensions(width, height, t)
         IN  RowsWritten(Repeat("=", d.width), d.divider_height, width, height, isRich)
    ELSE { }

\* (pane A painted from the last row of its share of the frame, for C29)
first_print_height_last_row(console_letter, d) == (d.ceiling + d.height) - 1

\* lines 243-248: the row of the newest line
first_print_height(console_letter, d) ==
    IF console_letter = "a" THEN d.height - 2 ELSE (d.ceiling + d.height) - 1

\* line 250: range(len(contents) - 1, 0, -1) stops above (Python) index 0
range_stop == 0

\* how often the loop of lines 250-266 runs its body: once per index of the
\* range, until print_height is above the ceiling (line 251)
Iterations(contents, start, ceiling) ==
    Max(0, Min((Len(contents) - 1) - range_stop, (start - ceiling) + 1))

\* lines 253-259 for a line of one character: cut to "..." or padded
PaneText(fixed_width) ==
    IF 1 > fixed_width THEN << ".", ".", "." >>
    ELSE << "a" >> \o Repeat(" ", fixed_width - 2)

\* _refresh_console, lines 243-266, on the buffer as evicted
refresh_console(console_letter, contents, width, height, t, isRich) ==
    LET d == get_dimensions(console_letter, width, height, t)
        start == first_print_height(console_letter, d)
    IN  [ k \in 1 .. Iterations(contents, start, d.ceiling) |->
            [ line |-> contents[Len(contents) - (k - 1)],
              row |-> start - (k - 1),
              mode |-> print(PaneText(d.width), TRUE, 0, start - (k - 1),
                             width, height, isRich).mode ] ]

Redrawn(a_contents, b_contents, scrollback, width, height, t, isRich) ==
    [ drawn |-> TRUE,
      title |-> display_main_title(width, height, t, isRich),
      divider |-> draw_divider(width, height, t, isRich),
      a |-> refresh_console("a", Evict(a_contents, scrollback),
                            width, height, t, isRich),
      b |-> refresh_console("b", Evict(b_contents, scrollback),
                            width, height, t, isRich) ]

NoCheckUpdate ==
    [ called |-> FALSE, reached |-> FALSE, sum_differs |-> FALSE,
      frame_differs |-> FALSE, interval_redraw |-> FALSE, resize_redraw |-> FALSE,
      counter_before |-> 0 ]

(* _check_update, lines 317-334, with the lock held: the counter, one of   *)
(* the two redraws or none, the heuristic after an interval redraw, and    *)
(* the release.  A redraw runs _refresh_console for both panes, whose      *)
(* lines 238-241 evict from both buffers.  dt is the time since the last   *)
(* entry of the queue was taken.                                           *)
CheckUpdateBody(t) ==
    /\ pc[t] = "cu_body"
    /\ \E dt \in Elapsed :
         LET counter == update_counter + 1
             reached == IntervalReached(counter, update_counter_interval)
             resized == SawResize(previous_height, previous_width,
                                  term_height, term_width)
             interval_redraw == reached
             resize_redraw == ResizeBranch(reached, resized)
             redraw == interval_redraw \/ resize_redraw
             stamp == last_updates[Len(last_updates)] + dt
             tuned == calculate_update_heuristic(update_counter_interval,
                                                 last_updates, stamp)
         IN  /\ update_counter' = CounterAfter(counter, interval_redraw)
             /\ contents_console_a' =
                    IF redraw THEN Evict(contents_console_a, console_scrollback)
                    ELSE contents_console_a
             /\ contents_console_b' =
                    IF redraw THEN Evict(contents_console_b, console_scrollback)
                    ELSE contents_console_b
             /\ update_counter_interval' =
                    IntervalAfter(update_counter_interval, tuned.interval,
                                  interval_redraw, resize_redraw)
             /\ last_updates' = IF interval_redraw THEN tuned.updates ELSE last_updates
             /\ previous_height' = IF resize_redraw THEN term_height ELSE previous_height
             /\ previous_width' = IF resize_redraw THEN term_width ELSE previous_width
             /\ last_cu' =
                    [ called |-> TRUE, reached |-> reached, sum_differs |-> resized,
                      frame_differs |-> << previous_width, previous_height >>
                                        # << term_width, term_height >>,
                      interval_redraw |-> interval_redraw,
                      resize_redraw |-> resize_redraw,
                      counter_before |-> update_counter ]
             /\ screen' =
                    IF redraw
                    THEN Redrawn(contents_console_a, contents_console_b,
                                 console_scrollback, term_width, term_height,
                                 title, rich)
                    ELSE screen
    /\ lock' = release
    /\ pc' = [ pc EXCEPT ![t] = AfterCheckUpdate(frame[t].op) ]
    /\ frame' = [ frame EXCEPT ![t] =
                    IF AfterCheckUpdate(frame[t].op) = "idle" THEN IdleFrame ELSE @ ]
    /\ UNCHANGED << term_width, term_height, rich, title, console_scrollback,
                    low_latency_index, calls, appended, print_in, printed, dims >>

----------------------------------------------------------------------------
(* load_bar(title, iteration, total, low_latency), lines 702-705: the gate *)
(* either returns or goes on to _check_update.                             *)
load_bar(t) ==
    \E low_latency \in BOOLEAN, total \in { 0, 2 } :
        /\ Start(t)
        /\ LET gate == skip_iteration(low_latency, low_latency_index, LowLatencyMax)
           IN  /\ low_latency_index' = gate.index
               /\ pc' = [ pc EXCEPT ![t] = IF gate.skip THEN "idle" ELSE "cu_acquire" ]
               /\ frame' = [ frame EXCEPT ![t] =
                               IF gate.skip THEN IdleFrame
                               ELSE [ IdleFrame EXCEPT !.op = "load_bar",
                                                       !.total = total,
                                                       !.low_latency = low_latency ] ]
        /\ UNCHANGED << term_width, term_height, rich, title, lock,
                        contents_console_a, contents_console_b, console_scrollback,
                        update_counter, update_counter_interval, previous_height,
                        previous_width, last_updates, appended, last_cu, print_in,
                        printed, dims,
                    screen >>

\* (a load_bar without its except clause, for C20)
bar_outcome_uncaught(total) ==
    IF total = 0
    THEN [ painted |-> FALSE, raised |-> "ZeroDivisionError" ]
    ELSE [ painted |-> TRUE, raised |-> "none" ]

\* lines 711-741: iteration / total raises ZeroDivisionError when total == 0,
\* before anything is printed, and the except clause passes; otherwise the
\* bar is printed (lines 719-730 in rich mode, 733-738 in plain mode)
bar_outcome(total) ==
    IF total = 0
    THEN [ painted |-> FALSE, raised |-> "none" ]
    ELSE [ painted |-> TRUE, raised |-> "none" ]

(* load_bar, lines 706-741: the bar is computed and painted (nothing is    *)
(* painted when total == 0: ZeroDivisionError is caught), then it returns. *)
LoadBarPaint(t) ==
    /\ pc[t] = "lb_paint"
    /\ pc' = [ pc EXCEPT ![t] = "idle" ]
    /\ frame' = [ frame EXCEPT ![t] =
                    [ IdleFrame EXCEPT !.returned = "load_bar",
                                       !.total = frame[t].total,
                                       !.painted = bar_outcome(frame[t].total).painted,
                                       !.raised = bar_outcome(frame[t].total).raised ] ]
    /\ UNCHANGED << term_width, term_height, rich, title, lock, contents_console_a,
                    contents_console_b, console_scrollback, low_latency_index,
                    update_counter, update_counter_interval, previous_height,
                    previous_width, last_updates, calls, appended, last_cu,
                    print_in, printed, dims,
                    screen >>

----------------------------------------------------------------------------
(* Key events, as self._term.inkey() returns them: name, is_sequence and   *)
(* the text of the keystroke.  A named key is a sequence.                  *)
NamedKey(name) == [ name |-> name, is_sequence |-> TRUE, char |-> "" ]
CharKey(char) == [ name |-> "None", is_sequence |-> FALSE, char |-> char ]
Keys ==
    { NamedKey(n) : n \in { "KEY_ENTER", "KEY_BACKSPACE", "KEY_DELETE", "KEY_UP",
                            "KEY_DOWN", "KEY_LEFT", "KEY_RIGHT" } }
    \cup { CharKey(c) : c \in { "y", "n", "q", "nonprintable" } }

\* self._pattern_text.match(val): the keystroke starts with a character in [ -~]
Found(key) == key.char \in { "y", "n", "q" }

\* the arguments the prompts are called with
MaxLenArgs == { [ given |-> FALSE, value |-> 0 ], [ given |-> TRUE, value |-> 1 ],
                [ given |-> TRUE, value |-> 2 ] }
ItemCounts == { 0, 1, 3 }

\* every prompt starts with _check_update (lines 563, 633, 745)
PromptCall(t, f) ==
    /\ Start(t)
    /\ pc' = [ pc EXCEPT ![t] = "cu_acquire" ]
    /\ frame' = [ frame EXCEPT ![t] = f ]
    /\ UNCHANGED << term_width, term_height, rich, title, lock, contents_console_a,
                    contents_console_b, console_scrollback, low_latency_index,
                    update_counter, update_counter_interval, previous_height,
                    previous_width, last_updates, appended, last_cu, print_in,
                    printed, dims,
                    screen >>

\* a step of the thread holding the lock in a prompt: only the thread's own
\* locals, where it is, and the lock change
PromptStep(t, next_pc, f, next_lock) ==
    /\ pc' = [ pc EXCEPT ![t] = next_pc ]
    /\ frame' = [ frame EXCEPT ![t] = f ]
    /\ lock' = next_lock
    /\ UNCHANGED << term_width, term_height, rich, title, contents_console_a,
                    contents_console_b, console_scrollback, low_latency_index,
                    update_counter, update_counter_interval, previous_height,
                    previous_width, last_updates, calls, appended, last_cu,
                    print_in, printed, dims,
                    screen >>

(* input(question, obfuscate, max_len), lines 562-607                      *)
input(t) ==
    \E obfuscate \in BOOLEAN, max_len \in MaxLenArgs :
        PromptCall(t, [ IdleFrame EXCEPT !.op = "input", !.obfuscate = obfuscate,
                                         !.max_len = IF max_len.given
                                                     THEN max_len.value ELSE -1,
                                         !.raised = IF max_len.given
                                                    THEN "none" ELSE "max_len is None" ])

\* lines 564-579: the lock, the question, max_len, the empty result
InputAcquire(t) ==
    /\ pc[t] = "in_acquire"
    /\ CanAcquire
    /\ PromptStep(t, "in_loop",
                  [ frame[t] EXCEPT !.max_len = IF frame[t].raised = "max_len is None"
                                                THEN term_width - 3 ELSE @,
                                    !.raised = "none",
                                    !.echo = "question",
                                    !.result = << >> ],
                  t)

\* lines 591-594 and 600-603: the result is shown, as stars when obfuscate
Echo(obfuscate) == IF obfuscate THEN "stars" ELSE "result"

\* (an echo that never masks, for C25)
EchoTextClear(obfuscate, result) == result

\* lines 600-603: "*" * len(result) when obfuscate, else result
EchoText(obfuscate, result) ==
    IF obfuscate THEN Repeat("*", Len(result)) ELSE result

\* (a LEFT that ends a prompt too, for C26)
ConfirmsOrLeft(key) == key.name \in { "KEY_ENTER", "KEY_LEFT" }

\* lines 585, 659 and 769: val.name == "KEY_ENTER"
Confirms(key) == key.name = "KEY_ENTER"

\* (a test that lets one character too many in, for C17)
CanAppendLate(result, max_len) == Len(result) <= max_len

\* line 596: (len(result) + 1) <= max_len
CanAppend(result, max_len) == Len(result) + 1 <= max_len

\* lines 580-607: one key event; KEY_ENTER ends the loop, the two rows are
\* blanked, the lock is released and result is returned
InputKey(t, key) ==
    /\ pc[t] = "in_loop"
    /\ LET f == frame[t]
       IN  IF Confirms(key)
           THEN PromptStep(t, "idle",
                           [ IdleFrame EXCEPT !.returned = "input",
                                              !.result = f.result,
                                              !.shown = f.shown,
                                              !.val = key.name ], release)
           ELSE IF key.is_sequence
           THEN PromptStep(t, "in_loop", [ f EXCEPT !.echo = "got sequence" ], lock)
           ELSE IF key.name \in { "KEY_BACKSPACE", "KEY_DELETE" }
           THEN PromptStep(t, "in_loop",
                           [ f EXCEPT !.result = SubSeq(@, 1, Len(@) - 1),
                                      !.echo = Echo(f.obfuscate),
                                      !.shown = EchoText(f.obfuscate,
                                                         SubSeq(f.result, 1,
                                                                Len(f.result) - 1)) ],
                           lock)
           ELSE IF Found(key) /\ CanAppend(f.result, f.max_len)
           THEN PromptStep(t, "in_loop",
                           [ f EXCEPT !.result = Append(@, key.char),
                                      !.echo = Echo(f.obfuscate),
                                      !.shown = EchoText(f.obfuscate,
                                                         Append(f.result, key.char)) ],
                           lock)
           ELSE PromptStep(t, "in_loop", f, lock)

(* ask_list(question, menu_list), lines 632-683; the menu has items items  *)
ask_list(t) ==
    \E items \in ItemCounts :
        PromptCall(t, [ IdleFrame EXCEPT !.op = "ask_list", !.items = items ])

\* lines 636-638
menu_top(items, height) == (height \div 2) - (items + 1)

\* the item at index is printed at column menu_offset of row
\* menu_top + index * 2 (lines 651-656, 661-666, 672-677): whether print()
\* places it
ItemPlaced(index, items) ==
    print(<< "a" >>, TRUE, term_width \div 2, menu_top(items, term_height) + index * 2,
          term_width, term_height, rich).mode = "placed"

\* lines 651-656: the item at index is printed after self._term.reverse
Highlight(inverted, index, items) ==
    IF ItemPlaced(index, items) THEN inverted \cup { index } ELSE inverted

\* lines 661-666 and 672-677: the item at index is printed again, plain
Unhighlight(inverted, index, items) ==
    IF ItemPlaced(index, items) THEN inverted \ { index } ELSE inverted

\* lines 634-657: the lock, the question and the items, index = 0, and the
\* loop's first highlight menu_list[index], an IndexError on an empty menu:
\* the exception leaves ask_list at line 653, before line 682 releases
AskListAcquire(t) ==
    /\ pc[t] = "al_acquire"
    /\ CanAcquire
    /\ IF frame[t].items = 0
       THEN IF frame[t].wrapped
            THEN PromptStep(t, "wr_except",
                            [ IdleFrame EXCEPT !.raised = "IndexError",
                                               !.wrapped = TRUE ], t)
            ELSE PromptStep(t, "idle", [ IdleFrame EXCEPT !.raised = "IndexError" ], t)
       ELSE PromptStep(t, "al_loop",
                       [ frame[t] EXCEPT !.index = 0,
                                         !.inverted = Highlight({ }, 0, frame[t].items) ],
                       t)

\* (an UP that does not wrap, for C16)
IndexUpNoWrap(index, index_max) == index - 1

\* lines 668-670: index -= 1; if index < 0: index = index_max
IndexUp(index, index_max) == IF index - 1 < 0 THEN index_max ELSE index - 1

\* lines 678-680: index += 1; if index > index_max: index = 0
IndexDown(index, index_max) == IF index + 1 > index_max THEN 0 ELSE index + 1

\* lines 658-683: one key event, then (unless it was KEY_ENTER) the highlight;
\* KEY_ENTER releases the lock and returns menu_list[index]
AskListKey(t, key) ==
    /\ pc[t] = "al_loop"
    /\ LET f == frame[t]
           index_max == f.items - 1
           plain == Unhighlight(f.inverted, f.index, f.items)
       IN  IF Confirms(key)
           THEN PromptStep(t, "idle",
                           [ IdleFrame EXCEPT !.returned = "ask_list",
                                              !.items = f.items,
                                              !.index = f.index,
                                              !.inverted = f.inverted,
                                              !.val = key.name ], release)
           ELSE IF key.name = "KEY_UP"
           THEN PromptStep(t, "al_loop",
                           [ f EXCEPT !.index = IndexUp(@, index_max),
                                      !.inverted = Highlight(plain,
                                                             IndexUp(f.index, index_max),
                                                             f.items) ], lock)
           ELSE IF key.name = "KEY_DOWN"
           THEN PromptStep(t, "al_loop",
                           [ f EXCEPT !.index = IndexDown(@, index_max),
                                      !.inverted = Highlight(plain,
                                                             IndexDown(f.index, index_max),
                                                             f.items) ], lock)
           ELSE PromptStep(t, "al_loop",
                           [ f EXCEPT !.inverted = Highlight(@, f.index, f.items) ],
                           lock)

(* wrapper(func), lines 778-803.  function_wrapper runs the callback in a  *)
(* try block; the callback calls ask_list with some menu, or raises on its *)
(* own outside of the engine.                                              *)
wrapped_ask_list(t) ==
    \E items \in ItemCounts :
        PromptCall(t, [ IdleFrame EXCEPT !.op = "ask_list", !.items = items,
                                         !.wrapped = TRUE ])

wrapped_raise(t) ==
    /\ Start(t)
    /\ pc' = [ pc EXCEPT ![t] = "wr_except" ]
    /\ frame' = [ frame EXCEPT ![t] =
                    [ IdleFrame EXCEPT !.raised = "KeyError", !.wrapped = TRUE ] ]
    /\ UNCHANGED << term_width, term_height, rich, title, lock, contents_console_a,
                    contents_console_b, console_scrollback, low_latency_index,
                    update_counter, update_counter_interval, previous_height,
                    previous_width, last_updates, appended, last_cu, print_in,
                    printed, dims, screen >>

\* lines 797-801: the except clause calls self.error(..., console="a"), which
\* (458-471, at a log level that shows errors) is console(text, False, True,
\* console="a") in rich mode and a plain print otherwise
WrapperExcept(t) ==
    /\ pc[t] = "wr_except"
    /\ IF rich
       THEN /\ contents_console_a' = Append(contents_console_a, appended["a"] + 1)
            /\ appended' = [ appended EXCEPT !["a"] = @ + 1 ]
            /\ pc' = [ pc EXCEPT ![t] = "con_evict" ]
       ELSE /\ UNCHANGED << contents_console_a, appended >>
            /\ pc' = [ pc EXCEPT ![t] = "wr_check" ]
    /\ frame' = [ frame EXCEPT ![t] =
                    [ @ EXCEPT !.op = "wrapper_error", !.pane = "a",
                               !.low_latency = FALSE ] ]
    /\ UNCHANGED << term_width, term_height, rich, title, lock, contents_console_b,
                    console_scrollback, low_latency_index, update_counter,
                    update_counter_interval, previous_height, previous_width,
                    last_updates, calls, last_cu, print_in, printed, dims, screen >>

\* line 802: self._check_update(), after which function_wrapper returns None
WrapperCheck(t) ==
    /\ pc[t] = "wr_check"
    /\ pc' = [ pc EXCEPT ![t] = "cu_acquire" ]
    /\ frame' = [ frame EXCEPT ![t] = [ @ EXCEPT !.op = "wrapper_check" ] ]
    /\ UNCHANGED << term_width, term_height, rich, title, lock, contents_console_a,
                    contents_console_b, console_scrollback, low_latency_index,
                    update_counter, update_counter_interval, previous_height,
                    previous_width, last_updates, calls, appended, last_cu,
                    print_in, printed, dims, screen >>

(* ask_yn(question, default_response), lines 743-776                       *)
ask_yn(t) ==
    \E default_response \in BOOLEAN :
        PromptCall(t, [ IdleFrame EXCEPT !.op = "ask_yn", !.choice = default_response ])

\* lines 746-767: the lock, the question and the two options
AskYnAcquire(t) ==
    /\ pc[t] = "yn_acquire"
    /\ CanAcquire
    /\ PromptStep(t, "yn_loop", frame[t], t)

\* line 773: val.name == "KEY_LEFT" or val == "y"
SelectsYes(key) == key.name = "KEY_LEFT" \/ key.char = "y"

\* (a No that the character y selects, for C19)
SelectsNoByY(key) == key.name = "KEY_RIGHT" \/ key.char = "y"

\* line 771: val.name == "KEY_RIGHT" or val == "n"
SelectsNo(key) == key.name = "KEY_RIGHT" \/ key.char = "n"

\* lines 768-776: one key event; KEY_ENTER releases the lock and returns index
AskYnKey(t, key) ==
    /\ pc[t] = "yn_loop"
    /\ LET f == frame[t]
       IN  IF Confirms(key)
           THEN PromptStep(t, "idle",
                           [ IdleFrame EXCEPT !.returned = "ask_yn",
                                              !.choice = f.choice,
                                              !.val = key.name ], release)
           ELSE IF SelectsNo(key)
           THEN PromptStep(t, "yn_loop", [ f EXCEPT !.choice = FALSE ], lock)
           ELSE IF SelectsYes(key)
           THEN PromptStep(t, "yn_loop", [ f EXCEPT !.choice = TRUE ], lock)
           ELSE PromptStep(t, "yn_loop", f, lock)

----------------------------------------------------------------------------
(* set_low_latency_refresh_interval(interval), lines 160-165; the clamp of  *)
(* line 162 (to 2^63 - 1) is out of reach of the arguments drawn here      *)
refresh_interval(interval) ==
    IF interval < 0 THEN 100 ELSE interval

set_low_latency_refresh_interval(t) ==
    \E interval \in IntervalArgs :
        /\ Start(t)
        /\ update_counter_interval' = refresh_interval(interval) * IntervalScale
        /\ UNCHANGED << term_width, term_height, rich, title, lock, frame,
                        contents_console_a, contents_console_b, console_scrollback,
                        low_latency_index, update_counter, previous_height,
                        previous_width, last_updates, pc, appended, last_cu,
                        print_in, printed, dims,
                    screen >>

(* set_main_title(new_title), lines 624-630                                *)
set_main_title(t) ==
    \E new_title \in { "None", "Title" } :
        /\ Start(t)
        /\ title' = new_title
        /\ UNCHANGED << term_width, term_height, rich, lock, frame, contents_console_a,
                        contents_console_b, console_scrollback, low_latency_index,
                        update_counter, update_counter_interval, previous_height,
                        previous_width, last_updates, pc, appended, last_cu,
                        print_in, printed, dims,
                    screen >>

(* set_log_level(log_level), lines 134-151: only the logger's level is     *)
(* set, which is no field of the engine.                                   *)
set_log_level(t) ==
    /\ Start(t)
    /\ UNCHANGED << term_width, term_height, rich, title, lock, frame,
                    contents_console_a, contents_console_b, console_scrollback,
                    low_latency_index, update_counter, update_counter_interval,
                    previous_height, previous_width, last_updates, pc, appended,
                    last_cu, print_in, printed, dims,
                    screen >>

(* The user resizes the terminal window.                                   *)
Resize ==
    \E size \in TermSizes :
        /\ size # << term_width, term_height >>
        /\ term_width' = size[1]
        /\ term_height' = size[2]
        /\ UNCHANGED << rich, title, lock, contents_console_a, contents_console_b,
                        console_scrollback, low_latency_index, update_counter,
                        update_counter_interval, previous_height, previous_width,
                        last_updates, pc, frame, calls, appended, last_cu,
                        print_in, printed, dims,
                    screen >>

----------------------------------------------------------------------------
(* __init__, lines 48-132, for a terminal of some size and some mode, and  *)
(* console_scrollback as the run configures it before its first call.      *)
EngineInitWith(width, height, isRich, scrollback, updates) ==
    /\ term_width = width
    /\ term_height = height
    /\ rich = isRich
    /\ title = "None"
    /\ lock = NoThread
    /\ contents_console_a = << 0 >>
    /\ contents_console_b = << 0 >>
    /\ console_scrollback = scrollback
    /\ low_latency_index = 0
    /\ update_counter = 0
    /\ update_counter_interval = 10 * IntervalScale
    /\ previous_height = height
    /\ previous_width = width
    /\ last_updates = updates
    /\ pc = [ t \in Threads |-> "idle" ]
    /\ frame = [ t \in Threads |-> IdleFrame ]
    /\ calls = 0
    /\ appended = [ p \in Panes |-> 0 ]
    /\ last_cu = NoCheckUpdate

\* line 131: self._last_updates = [datetime.now()], the engine's time 0
EngineInit(width, height, isRich, scrollback) ==
    EngineInitWith(width, height, isRich, scrollback, << 0 >>)

NoDimensions ==
    [ called |-> FALSE,
      a |-> [ width |-> 0, height |-> 0, ceiling |-> 0 ],
      b |-> [ width |-> 0, height |-> 0, ceiling |-> 0 ] ]

\* self.console_scrollback as __init__ leaves it (line 124)
console_scrollback_default == 500
DefaultSize == << 4, 5 >>

Untouched ==
    /\ print_in = NoPrintCall
    /\ printed = NotPrinted
    /\ dims = NoDimensions
    /\ screen = NoScreen

\* the steps of _check_update, which every operation below goes through
CheckUpdate(t) == CheckUpdateAcquire(t) \/ CheckUpdateBody(t)

(***************************************************************************)
(* Spec: the engine called by several threads: the operations that take    *)
(* the lock or write to the buffers and the screen.                        *)
(***************************************************************************)
\* the keys the users of the threads' prompts press: one that ends a prompt,
\* one that moves each prompt's selection, one that is typed
ThreadKeys ==
    { NamedKey("KEY_ENTER"), NamedKey("KEY_DOWN"), NamedKey("KEY_LEFT"), CharKey("n") }

Init ==
    /\ \E isRich \in BOOLEAN :
           EngineInit(DefaultSize[1], DefaultSize[2], isRich, console_scrollback_default)
    /\ Untouched

Next ==
    \E t \in Threads :
        \/ /\ calls < MaxThreadCalls
           /\ \/ console(t)
              \/ notice(t)
              \/ load_bar(t)
              \/ input(t)
              \/ ask_list(t)
              \/ ask_yn(t)
              \/ set_low_latency_refresh_interval(t)
        \/ ConsoleEvict(t)
        \/ CheckUpdate(t)
        \/ LoadBarPaint(t)
        \/ InputAcquire(t)
        \/ AskListAcquire(t)
        \/ AskYnAcquire(t)
        \/ \E key \in ThreadKeys :
               InputKey(t, key) \/ AskListKey(t, key) \/ AskYnKey(t, key)

Spec == Init /\ [][Next]_vars

MainThread == "t1"

(***************************************************************************)
(* SpecConsole: one thread writes lines to the two panes of an engine      *)
(* whose console_scrollback the run has configured.                        *)
(***************************************************************************)
InitConsole ==
    /\ \E isRich \in BOOLEAN, scrollback \in 1 .. MaxScrollback :
           EngineInit(DefaultSize[1], DefaultSize[2], isRich, scrollback)
    /\ Untouched

NextConsole ==
    \/ console(MainThread)
    \/ notice(MainThread)
    \/ ConsoleEvict(MainThread)
    \/ CheckUpdate(MainThread)
    \/ set_low_latency_refresh_interval(MainThread)

SpecConsole == InitConsole /\ [][NextConsole]_vars

(***************************************************************************)
(* SpecRefresh: one thread calls operations that go through _check_update  *)
(* while the refresh interval is set and the terminal is resized.          *)
(***************************************************************************)
InitRefresh ==
    /\ \E size \in TermSizes :
           EngineInit(size[1], size[2], TRUE, console_scrollback_default)
    /\ Untouched

NextRefresh ==
    \/ load_bar(MainThread)
    \/ LoadBarPaint(MainThread)
    \/ CheckUpdate(MainThread)
    \/ set_low_latency_refresh_interval(MainThread)
    \/ Resize

SpecRefresh == InitRefresh /\ [][NextRefresh]_vars

(***************************************************************************)
(* SpecInterval: one thread calls the public operations of an engine that  *)
(* has redrawn on the interval path before: the queue of the heuristic     *)
(* holds the time of construction, or that and the times of three redraws  *)
(* evenly spaced.                                                          *)
(***************************************************************************)
\* n times, the first 0, each spacing seconds after the one before
Spaced(n, spacing) == [ i \in 1 .. n |-> (i - 1) * spacing ]

Queues == { Spaced(1, 0) } \cup { Spaced(max_last_updates - 1, d) : d \in Elapsed }

InitInterval ==
    /\ \E updates \in Queues :
           EngineInitWith(DefaultSize[1], DefaultSize[2], TRUE,
                          console_scrollback_default, updates)
    /\ Untouched

NextInterval ==
    \/ /\ calls < MaxIntervalCalls
       /\ \/ console(MainThread)
          \/ load_bar(MainThread)
          \/ input(MainThread)
          \/ ask_list(MainThread)
          \/ ask_yn(MainThread)
          \/ set_main_title(MainThread)
          \/ set_log_level(MainThread)
          \/ set_low_latency_refresh_interval(MainThread)
    \/ ConsoleEvict(MainThread)
    \/ CheckUpdate(MainThread)
    \/ LoadBarPaint(MainThread)
    \/ InputAcquire(MainThread)
    \/ AskListAcquire(MainThread)
    \/ AskYnAcquire(MainThread)
    \/ \E key \in Keys : \/ InputKey(MainThread, key)
                          \/ AskListKey(MainThread, key)
                          \/ AskYnKey(MainThread, key)

SpecInterval == InitInterval /\ [][NextInterval]_vars

(***************************************************************************)
(* SpecPrompt: one thread calls the prompts and its user presses any keys  *)
(***************************************************************************)
InitPrompt ==
    /\ \E size \in TermSizes :
           EngineInit(size[1], size[2], TRUE, console_scrollback_default)
    /\ Untouched

NextPrompt ==
    \/ input(MainThread)
    \/ ask_list(MainThread)
    \/ ask_yn(MainThread)
    \/ CheckUpdate(MainThread)
    \/ InputAcquire(MainThread)
    \/ AskListAcquire(MainThread)
    \/ AskYnAcquire(MainThread)
    \/ \E key \in Keys : \/ InputKey(MainThread, key)
                          \/ AskListKey(MainThread, key)
                          \/ AskYnKey(MainThread, key)

SpecPrompt == InitPrompt /\ [][NextPrompt]_vars

(***************************************************************************)
(* SpecWrapper: one thread runs callbacks under wrapper(), and calls       *)
(* console() and input() itself                                            *)
(***************************************************************************)
InitWrapper ==
    /\ \E isRich \in BOOLEAN :
           EngineInit(DefaultSize[1], DefaultSize[2], isRich, console_scrollback_default)
    /\ Untouched

NextWrapper ==
    \/ wrapped_ask_list(MainThread)
    \/ wrapped_raise(MainThread)
    \/ console(MainThread)
    \/ input(MainThread)
    \/ WrapperExcept(MainThread)
    \/ WrapperCheck(MainThread)
    \/ ConsoleEvict(MainThread)
    \/ CheckUpdate(MainThread)
    \/ AskListAcquire(MainThread)
    \/ InputAcquire(MainThread)
    \/ \E key \in ThreadKeys : AskListKey(MainThread, key) \/ InputKey(MainThread, key)

SpecWrapper == InitWrapper /\ [][NextWrapper]_vars

(***************************************************************************)
(* SpecLive: the threads call console(), load_bar() and the prompts (the   *)
(* menus of ask_list not empty, so that no operation raises) under a fair  *)
(* scheduler: a thread that can take a step takes it in the end, a thread  *)
(* that finds the lock free again and again gets it in the end, and the    *)
(* user of a pending prompt presses KEY_ENTER in the end.                  *)
(***************************************************************************)
\* how many operations the threads start in one run of SpecLive
MaxLiveCalls == 3

\* the key that ends a prompt and one that does not
LiveKeys == { NamedKey("KEY_ENTER"), NamedKey("KEY_DOWN") }

InitLive ==
    /\ EngineInit(DefaultSize[1], DefaultSize[2], TRUE, console_scrollback_default)
    /\ Untouched

NextLive ==
    \E t \in Threads :
        \/ /\ calls < MaxLiveCalls
           /\ \/ console(t)
              \/ load_bar(t)
              \/ input(t)
              \/ ask_list(t) /\ frame'[t].items > 0
              \/ ask_yn(t)
        \/ ConsoleEvict(t)
        \/ CheckUpdate(t)
        \/ LoadBarPaint(t)
        \/ InputAcquire(t)
        \/ AskListAcquire(t)
        \/ AskYnAcquire(t)
        \/ \E key \in LiveKeys :
               InputKey(t, key) \/ AskListKey(t, key) \/ AskYnKey(t, key)

\* the steps a thread takes without waiting for anything
StepsOn(t) == ConsoleEvict(t) \/ CheckUpdateBody(t) \/ LoadBarPaint(t)

\* the acquisitions of the lock
Acquires(t) ==
    CheckUpdateAcquire(t) \/ InputAcquire(t) \/ AskListAcquire(t) \/ AskYnAcquire(t)

\* the user of the thread's prompt presses KEY_ENTER
GetsConfirm(t) ==
    \/ InputKey(t, NamedKey("KEY_ENTER"))
    \/ AskListKey(t, NamedKey("KEY_ENTER"))
    \/ AskYnKey(t, NamedKey("KEY_ENTER"))

Fairness ==
    \A t \in Threads :
        /\ WF_vars(StepsOn(t))
        /\ SF_vars(Acquires(t))
        /\ WF_vars(GetsConfirm(t))

SpecLive == InitLive /\ [][NextLive]_vars /\ Fairness

(***************************************************************************)
(* SpecCounter: one thread calls console(), load_bar() and the prompts,    *)
(* and never set_low_latency_refresh_interval, on an engine that has been  *)
(* called before: _check_update has counted some calls since construction  *)
(* or since the last interval redraw, with update_counter_interval still   *)
(* the 10 of __init__ (line 122), and the queue of the heuristic is one of *)
(* Queues.                                                                 *)
(***************************************************************************)
\* the values of the counter the run starts from: 0 and the last ones below
\* the interval of __init__
CountedBefore == { 0, 8, 9 }
\* how many operations the thread starts in one run of SpecCounter
MaxCounterCalls == 4

InitCounter ==
    /\ term_width = DefaultSize[1]
    /\ term_height = DefaultSize[2]
    /\ rich = TRUE
    /\ title = "None"
    /\ lock = NoThread
    /\ contents_console_a = << 0 >>
    /\ contents_console_b = << 0 >>
    /\ console_scrollback = console_scrollback_default
    /\ low_latency_index = 0
    /\ update_counter \in CountedBefore
    /\ update_counter_interval = 10 * IntervalScale
    /\ previous_height = DefaultSize[2]
    /\ previous_width = DefaultSize[1]
    /\ last_updates \in Queues
    /\ pc = [ t \in Threads |-> "idle" ]
    /\ frame = [ t \in Threads |-> IdleFrame ]
    /\ calls = 0
    /\ appended = [ p \in Panes |-> 0 ]
    /\ last_cu = NoCheckUpdate
    /\ Untouched

NextCounter ==
    \/ /\ calls < MaxCounterCalls
       /\ \/ console(MainThread)
          \/ load_bar(MainThread)
          \/ input(MainThread)
          \/ ask_list(MainThread)
          \/ ask_yn(MainThread)
    \/ ConsoleEvict(MainThread)
    \/ CheckUpdate(MainThread)
    \/ LoadBarPaint(MainThread)
    \/ InputAcquire(MainThread)
    \/ AskListAcquire(MainThread)
    \/ AskYnAcquire(MainThread)
    \/ \E key \in ThreadKeys : \/ InputKey(MainThread, key)
                                \/ AskListKey(MainThread, key)
                                \/ AskYnKey(MainThread, key)

SpecCounter == InitCounter /\ [][NextCounter]_vars

(***************************************************************************)
(* SpecPrint: one call of print() in some frame                            *)
(***************************************************************************)
Tokens == { << c >> : c \in VisibleChars } \cup { StyleSeq }

\* the texts of at most n tokens
RECURSIVE TextsOf(_)
TextsOf(n) ==
    IF n = 0 THEN { << >> }
    ELSE TextsOf(n - 1) \cup { text \o token : text \in TextsOf(n - 1), token \in Tokens }

HelloWorld == << "H", "e", "l", "l", "o", "W", "o", "r", "l", "d", "!" >>

InitPrint ==
    /\ \/ \E width \in 1 .. MaxWidth, height \in 1 .. MaxHeight, isRich \in BOOLEAN :
            /\ EngineInit(width, height, isRich, console_scrollback_default)
            /\ print_in \in [ text : TextsOf(MaxTokens), coords : BOOLEAN,
                              right : -1 .. MaxWidth + 1, down : -1 .. MaxHeight + 1 ]
       \/ /\ EngineInit(10, 1, TRUE, console_scrollback_default)
          /\ print_in = [ text |-> HelloWorld, coords |-> TRUE, right |-> 5, down |-> 0 ]
    /\ printed = NotPrinted
    /\ dims = NoDimensions
    /\ screen = NoScreen

DoPrint ==
    /\ printed = NotPrinted
    /\ printed' = print(print_in.text, print_in.coords, print_in.right, print_in.down,
                        term_width, term_height, rich)
    /\ UNCHANGED << term_width, term_height, rich, title, lock, contents_console_a,
                    contents_console_b, console_scrollback, low_latency_index,
                    update_counter, update_counter_interval, previous_height,
                    previous_width, last_updates, pc, frame, calls, appended,
                    last_cu, print_in, dims,
                    screen >>

NextPrint == DoPrint

SpecPrint == InitPrint /\ [][NextPrint]_vars

(***************************************************************************)
(* SpecGeom: _get_dimensions for both panes, in some frame, with the title *)
(* set or not                                                              *)
(***************************************************************************)
InitGeom ==
    /\ \E width \in 0 .. MaxWidth, height \in 0 .. MaxGeomHeight :
           EngineInit(width, height, TRUE, console_scrollback_default)
    /\ Untouched

GetDimensions ==
    /\ dims' = [ called |-> TRUE,
                 a |-> get_dimensions("a", term_width, term_height, title),
                 b |-> get_dimensions("b", term_width, term_height, title) ]
    /\ UNCHANGED << term_width, term_height, rich, title, lock, contents_console_a,
                    contents_console_b, console_scrollback, low_latency_index,
                    update_counter, update_counter_interval, previous_height,
                    previous_width, last_updates, pc, frame, calls, appended,
                    last_cu, print_in, printed, screen >>

NextGeom == set_main_title(MainThread) \/ GetDimensions

SpecGeom == InitGeom /\ [][NextGeom]_vars

(***************************************************************************)
(* SpecRedraw: the redraw, on an engine in a frame of some height, with    *)
(* the title set or not, after some console() calls.  _check_update runs   *)
(* the redraw in any call made after the terminal was resized, so it meets *)
(* the buffers in every state the calls leave them in.                     *)
(***************************************************************************)
\* the tallest frame
MaxRedrawHeight == 8

InitRedraw ==
    /\ \E height \in 0 .. MaxRedrawHeight,
          scrollback \in { MaxScrollback, console_scrollback_default } :
           EngineInit(DefaultSize[1], height, TRUE, scrollback)
    /\ Untouched

\* lines 331-333: clear(), _display_main_title(), _refresh_consoles()
Redraw ==
    /\ pc[MainThread] = "idle"
    /\ screen' = Redrawn(contents_console_a, contents_console_b, console_scrollback,
                         term_width, term_height, title, rich)
    /\ contents_console_a' = Evict(contents_console_a, console_scrollback)
    /\ contents_console_b' = Evict(contents_console_b, console_scrollback)
    /\ UNCHANGED << term_width, term_height, rich, title, lock, console_scrollback,
                    low_latency_index, update_counter, update_counter_interval,
                    previous_height, previous_width, last_updates, pc, frame, calls,
                    appended, last_cu, print_in, printed, dims >>

NextRedraw ==
    \/ console(MainThread)
    \/ ConsoleEvict(MainThread)
    \/ CheckUpdate(MainThread)
    \/ set_main_title(MainThread)
    \/ Redraw

SpecRedraw == InitRedraw /\ [][NextRedraw]_vars

(***************************************************************************)
(* The claims                                                              *)
(***************************************************************************)
\* no console() call is between its append to the pane and the end of its
\* eviction loop
Quiescent(pane) ==
    \A t \in Threads : ~(pc[t] = "con_evict" /\ frame[t].pane = pane)

\* C1 (SpecConsole): for every configured capacity N = console_scrollback >= 1
\* and every sequence of console() calls to pane A and pane B, the length of
\* each pane's buffer does not exceed N.
C1_ScrollbackBound ==
    \A pane \in Panes :
        Quiescent(pane) => Len(Contents(pane)) <= console_scrollback

\* C1's case: more lines than N have been appended to pane A, and evicted
C1_Witness ==
    /\ pc[MainThread] = "idle"
    /\ console_scrollback >= 2
    /\ appended["a"] > console_scrollback
    /\ Len(contents_console_a) < appended["a"]

\* the last n of the lines appended to a pane, oldest first
LastLines(pane, n) == [ i \in 1 .. n |-> appended[pane] - n + i ]

\* C2 (SpecConsole), as claimed: after k > N console() appends to one pane
\* with capacity N, the pane's buffer holds exactly the last N appended lines
\* in chronological order.
C2_LastNKept ==
    \A pane \in Panes :
        Quiescent(pane) /\ appended[pane] > console_scrollback
            => Contents(pane) = LastLines(pane, console_scrollback)

\* C3 (Spec), as claimed: whenever an operation that acquires the lock has
\* ended, normally or by an exception, its thread no longer holds the lock.
C3_LockReleasedOnExit ==
    \A t \in Threads : pc[t] = "idle" => lock # t

\* a thread is between an append to a buffer and the end of the eviction, or in
\* a step that paints the screen
WritingPcs == { "con_evict", "cu_body", "lb_paint" } \cup ReadLoopPcs

\* C4 (Spec), as claimed: every screen write and every buffer mutation of
\* console(), load_bar() and the prompts is done by a thread that holds the
\* lock, so no two threads are inside one at the same time.
C4_WritesUnderLock ==
    /\ \A t \in Threads : pc[t] \in WritingPcs => lock = t
    /\ \A t, u \in Threads : pc[t] \in WritingPcs /\ pc[u] \in WritingPcs => t = u

\* C5 (Spec): in rich mode, while one thread is in the read loop of a prompt,
\* no other thread's console() call is in the part of _check_update that
\* counts, redraws and writes to the screen.
C5_NoRedrawDuringPrompt ==
    rich =>
        \A t, u \in Threads :
            t # u /\ pc[t] \in ReadLoopPcs /\ frame[u].op = "console"
                => pc[u] # "cu_body"

\* C5's case: a console() call waits for the lock that a prompt holds
C5_Witness ==
    /\ rich
    /\ \E t, u \in Threads :
           /\ t # u
           /\ pc[t] \in ReadLoopPcs
           /\ frame[u].op = "console"
           /\ pc[u] = "cu_acquire"

PrintCalled == printed.mode # "not called"

\* C6 (SpecPrint), as claimed: in rich mode print(text, right, down) writes
\* nothing whenever down is outside [0, height) or right is outside [0, width).
C6_OffScreenIsNoOp ==
    /\ PrintCalled
    /\ rich
    /\ print_in.coords
    /\ \/ print_in.down \notin 0 .. term_height - 1
       \/ print_in.right \notin 0 .. term_width - 1
    => ~printed.wrote

IsStrictPrefix(s, text) == Len(s) < Len(text) /\ s = SubSeq(text, 1, Len(s))

\* C7 (SpecPrint), as claimed: for every text and every column c with
\* 0 <= c < width and c + visible_length(text) > width, the text print() places
\* (on a row of the screen) is a strict prefix of the text whose visible length
\* is width - c.
C7_TruncatedToWidth ==
    /\ PrintCalled
    /\ rich
    /\ print_in.coords
    /\ print_in.down \in 0 .. term_height - 1
    /\ print_in.right \in 0 .. term_width - 1
    /\ print_in.right + len_printable(print_in.text) > term_width
    => /\ printed.wrote
       /\ IsStrictPrefix(printed.text, print_in.text)
       /\ len_printable(printed.text) = term_width - print_in.right

\* C8 (SpecGeom), as claimed: for every width >= 0 and height >= 0, with the
\* title present or absent, paneA.top + paneA.height <= paneB.top and
\* paneB.top + paneB.height <= height, and both heights are >= 0.
C8_PanesDoNotOverlap ==
    dims.called =>
        /\ dims.a.ceiling + dims.a.height <= dims.b.ceiling
        /\ dims.b.ceiling + dims.b.height <= term_height
        /\ dims.a.height >= 0
        /\ dims.b.height >= 0

\* C9 (SpecRefresh), as claimed: a _check_update call that sees a resized frame
\* takes the resize path, not the interval path, and leaves the counter as it
\* found it.
C9_ResizeTakesPriority ==
    last_cu.called /\ last_cu.sum_differs
        => /\ last_cu.resize_redraw
           /\ ~last_cu.interval_redraw
           /\ update_counter = last_cu.counter_before

\* C9 (SpecRefresh), amended: the two redraws never both run in one call; a
\* call that sees a resized frame takes the interval path when the incremented
\* counter has reached the interval, and resets the counter to 0; it takes the
\* resize path when the incremented counter is below the interval, and leaves
\* the counter at its incremented value.
C9_ExclusiveRedraws ==
    last_cu.called =>
        /\ ~(last_cu.interval_redraw /\ last_cu.resize_redraw)
        /\ last_cu.sum_differs /\ last_cu.reached
               => last_cu.interval_redraw /\ update_counter = 0
        /\ last_cu.sum_differs /\ ~last_cu.reached
               => last_cu.resize_redraw
                  /\ update_counter = last_cu.counter_before + 1

\* C9's case: a call found the frame resized and the counter at the interval
C9_Witness ==
    /\ last_cu.called
    /\ last_cu.sum_differs
    /\ last_cu.reached
    /\ last_cu.interval_redraw

\* C10 (SpecRefresh), as claimed: every _check_update call in which the
\* terminal's (width, height) differs from the last-seen one does a full redraw.
C10_ResizeRedraws ==
    last_cu.called /\ last_cu.frame_differs
        => last_cu.interval_redraw \/ last_cu.resize_redraw

\* C11 (SpecRefresh), as claimed: the refresh counter is 0 after every full
\* redraw of _check_update, interval-triggered or resize-triggered.
C11_CounterZeroAfterRedraw ==
    last_cu.called /\ (last_cu.interval_redraw \/ last_cu.resize_redraw)
        => update_counter = 0

\* C11 (SpecRefresh), amended: the counter is 0 after an interval-triggered
\* redraw; after a resize-triggered redraw it is the value the call found plus
\* one (so at least 1): the resize path does not reset it.
C11_CounterAfterRedraw ==
    last_cu.called =>
        /\ last_cu.interval_redraw => update_counter = 0
        /\ last_cu.resize_redraw =>
               /\ update_counter = last_cu.counter_before + 1
               /\ update_counter >= 1

\* C11's case: the last _check_update redrew because of a resize
C11_Witness ==
    /\ last_cu.called
    /\ last_cu.resize_redraw
    /\ update_counter >= 2

\* the values set_low_latency_refresh_interval and __init__ install
Installed ==
    { refresh_interval(i) * IntervalScale : i \in IntervalArgs } \cup { 10 * IntervalScale }

\* a step that ends the body of _check_update
EndsCheckUpdate(t) == pc[t] = "cu_body" /\ pc'[t] # "cu_body"

Proceeds(t) ==
    pc[t] = "idle" /\ pc'[t] = "cu_acquire" /\ frame'[t].op = "load_bar"

\* C14 (SpecRefresh): the gate index stays within [0, low_latency_max]; a call
\* with the gate disabled proceeds and leaves the index as it is; a call with
\* the gate enabled is skipped (it returns at once, the index one higher)
\* while the index is below low_latency_max, and proceeds, resetting the index
\* to 0, when the index has reached low_latency_max.
C14_GateSkipsUntilMax ==
    [][ /\ low_latency_index' \in 0 .. LowLatencyMax
        /\ \A t \in Threads :
               Proceeds(t) =>
                   IF frame'[t].low_latency
                   THEN low_latency_index = LowLatencyMax /\ low_latency_index' = 0
                   ELSE low_latency_index' = low_latency_index
        /\ low_latency_index' # low_latency_index =>
               \/ /\ low_latency_index < LowLatencyMax
                  /\ low_latency_index' = low_latency_index + 1
                  /\ pc' = pc
                  /\ calls' = calls + 1
               \/ /\ low_latency_index = LowLatencyMax
                  /\ low_latency_index' = 0
                  /\ \E t \in Threads : Proceeds(t) ]_vars

\* C14's case: after low_latency_max skipped calls, an enabled call proceeds
\* and the index is back at 0
C14_Witness ==
    /\ pc[MainThread] = "cu_acquire"
    /\ frame[MainThread].op = "load_bar"
    /\ frame[MainThread].low_latency
    /\ low_latency_index = 0
    /\ calls > LowLatencyMax

\* the pane's buffer after the step
ContentsAfter(pane) == IF pane = "a" THEN contents_console_a' ELSE contents_console_b'

\* C15 (SpecConsole), as claimed: when a console() call with low_latency=True
\* returns because the gate skipped its render, the text of the call is the
\* last line of the target pane's buffer.
C15_SkippedCallKeepsLine ==
    [][ \A t \in Threads :
            pc[t] = "con_evict" /\ frame[t].low_latency /\ pc'[t] = "idle" =>
                LET contents == ContentsAfter(frame[t].pane)
                IN  /\ contents # << >>
                    /\ contents[Len(contents)] = appended[frame[t].pane] ]_vars

\* C16 (SpecPrompt): in ask_list with n >= 1 items, KEY_UP moves the selection from
\* i to i - 1 and from 0 to n - 1, KEY_DOWN from i to i + 1 and from n - 1 to
\* 0, no other key but KEY_ENTER moves it, KEY_ENTER returns the item
\* selected, and the selection stays within [0, n - 1].
C16_SelectionWraps ==
    [][ \A t \in Threads, key \in Keys :
            AskListKey(t, key) =>
                LET n == frame[t].items
                    i == frame[t].index
                    j == frame'[t].index
                IN  /\ j \in 0 .. n - 1
                    /\ IF key = NamedKey("KEY_ENTER")
                       THEN /\ frame'[t].returned = "ask_list"
                            /\ j = i
                       ELSE IF key = NamedKey("KEY_UP") THEN j = (i + n - 1) % n
                       ELSE IF key = NamedKey("KEY_DOWN") THEN j = (i + 1) % n
                       ELSE j = i ]_vars

\* C16's case: of 3 items the last is selected, which only key events do
C16_Witness ==
    \E t \in Threads :
        /\ pc[t] = "al_loop"
        /\ frame[t].items = 3
        /\ frame[t].index = 2

\* C17 (SpecPrompt): in input() with maximum length M >= 0 the entry buffer is never
\* longer than M, and a printable character that arrives when the buffer has
\* length M leaves the prompt as it is.
C17_BufferWithinMaxLen ==
    [][ \A t \in Threads :
            /\ pc'[t] = "in_loop" /\ frame'[t].max_len >= 0
                   => Len(frame'[t].result) <= frame'[t].max_len
            /\ \A key \in Keys :
                   /\ InputKey(t, key)
                   /\ Found(key)
                   /\ Len(frame[t].result) = frame[t].max_len
                   => /\ frame'[t] = frame[t]
                      /\ pc'[t] = "in_loop" ]_vars

\* C17's case: the buffer is full, with more than one character
C17_Witness ==
    \E t \in Threads :
        /\ pc[t] = "in_loop"
        /\ frame[t].max_len = 2
        /\ Len(frame[t].result) = 2

\* Python's result[:-1]
DropLast(result) == SubSeq(result, 1, Len(result) - 1)

\* C18 (SpecPrompt), as claimed: in input() every KEY_BACKSPACE and every KEY_DELETE
\* event removes the last character of the entry buffer (none when it is
\* empty).
C18_BackspaceRemovesLast ==
    [][ \A t \in Threads :
            \A key \in { NamedKey("KEY_BACKSPACE"), NamedKey("KEY_DELETE") } :
                InputKey(t, key) => frame'[t].result = DropLast(frame[t].result) ]_vars

\* C19 (SpecPrompt): in ask_yn KEY_LEFT and the character y select Yes, KEY_RIGHT
\* and the character n select No, no other key but KEY_ENTER changes the
\* choice, and KEY_ENTER returns the choice as it then is (the caller's
\* default when no selecting key arrived).
C19_AskYnChoice ==
    [][ \A t \in Threads :
            /\ \A key \in Keys :
                   AskYnKey(t, key) =>
                       IF key = NamedKey("KEY_ENTER")
                       THEN /\ frame'[t].returned = "ask_yn"
                            /\ frame'[t].choice = frame[t].choice
                       ELSE IF key \in { NamedKey("KEY_LEFT"), CharKey("y") }
                       THEN frame'[t].choice = TRUE
                       ELSE IF key \in { NamedKey("KEY_RIGHT"), CharKey("n") }
                       THEN frame'[t].choice = FALSE
                       ELSE frame'[t].choice = frame[t].choice
            /\ pc[t] = "yn_acquire" /\ pc'[t] = "yn_loop"
                   => frame'[t].choice = frame[t].choice ]_vars

\* C19's case: ask_yn has returned Yes
C19_Witness ==
    \E t \in Threads :
        /\ pc[t] = "idle"
        /\ frame[t].returned = "ask_yn"
        /\ frame[t].choice

\* C20 (Spec): a load_bar call with total == 0 that has returned raised no
\* exception and painted no bar, in rich and in plain mode.
C20_ZeroTotalPaintsNothing ==
    \A t \in Threads :
        frame[t].returned = "load_bar" /\ frame[t].total = 0
            => /\ pc[t] = "idle"
               /\ frame[t].raised = "none"
               /\ ~frame[t].painted

\* C20's case: in plain mode a load_bar call with total == 0 has returned
C20_Witness ==
    /\ ~rich
    /\ \E t \in Threads :
           /\ frame[t].returned = "load_bar"
           /\ frame[t].total = 0

\* C22 (SpecInterval): after every run of the heuristic the queue of redraw
\* times holds at most 5 entries, and a run that leaves the queue (the time of
\* this redraw included) with fewer than 5 entries leaves
\* update_counter_interval as it was.
C22_QueueCappedColdStart ==
    [][ \A t \in Threads :
            EndsCheckUpdate(t) /\ last_updates' # last_updates =>
                /\ Len(last_updates') <= 5
                /\ Len(last_updates') < 5
                       => update_counter_interval' = update_counter_interval ]_vars

\* C22's case: the queue is full and its oldest entry, the time of
\* construction, has been dropped
C22_Witness ==
    /\ last_cu.interval_redraw
    /\ Len(last_updates) = 5
    /\ last_updates[1] # 0

\* C23 (SpecRefresh), as claimed: after every interval-triggered redraw
\* update_counter_interval is at least 1.
C23_IntervalAtLeastOne ==
    [][ \A t \in Threads :
            /\ EndsCheckUpdate(t)
            /\ (update_counter + 1) * IntervalScale >= update_counter_interval
            => update_counter_interval' >= 1 * IntervalScale ]_vars

\* a step that redraws: the redraw itself, or a _check_update that took one
\* of its two redraw branches
RedrawStep ==
    \/ Redraw
    \/ \E t \in Threads :
           /\ EndsCheckUpdate(t)
           /\ last_cu'.interval_redraw \/ last_cu'.resize_redraw

\* the lines of a buffer: its entries but the empty one __init__ puts in it
IsLine(entry) == entry # 0
Lines(contents) == SelectSeq(contents, IsLine)

\* the paints are the newest lines of the buffer, newest first, one per row
\* from the row bottom upward, as many as there are lines or rows down to the
\* ceiling
PaintsNewestUpward(paints, contents, bottom, ceiling) ==
    LET lines == Lines(contents)
    IN  /\ Len(paints) = Max(0, Min(Len(lines), (bottom - ceiling) + 1))
        /\ \A k \in 1 .. Len(paints) :
               /\ paints[k].line = lines[Len(lines) - (k - 1)]
               /\ paints[k].row = bottom - (k - 1)
               /\ paints[k].mode = "placed"

\* C24 (SpecRedraw), as claimed: a redraw paints the lines of each pane's
\* buffer one per row, newest first, from the pane's bottom interior row (the
\* row above the divider for pane A, the last row of the pane for pane B)
\* upward, and stops only at the pane's ceiling or when every line of the
\* buffer is painted: a pane with as many rows as the buffer has lines shows
\* them all.
C24_RedrawPaintsBuffer ==
    [][ RedrawStep =>
          LET a == get_dimensions("a", term_width, term_height, title)
              b == get_dimensions("b", term_width, term_height, title)
          IN  /\ PaintsNewestUpward(screen'.a, contents_console_a',
                                    (b.ceiling - 1) - 1, a.ceiling)
              /\ PaintsNewestUpward(screen'.b, contents_console_b',
                                    (b.ceiling + b.height) - 1, b.ceiling) ]_vars

\* the rows the paints of a pane are placed on
RowsOf(paints) == { paints[k].row : k \in { i \in 1 .. Len(paints) : paints[i].mode = "placed" } }
LinesOf(paints) == { paints[k].line : k \in { i \in 1 .. Len(paints) : paints[i].mode # "none" } }

\* C28 (SpecConsole), as claimed: without styling no redraw prints a line of
\* the buffers that the redraw before it has printed.
C28_PlainPrintsOnce ==
    [][ RedrawStep /\ ~rich =>
          /\ LinesOf(screen'.a) \cap LinesOf(screen.a) = { }
          /\ LinesOf(screen'.b) \cap LinesOf(screen.b) = { } ]_vars

C26_ReturnsOnConfirmOnly ==
    [][ \A t \in Threads :
            pc[t] \in ReadLoopPcs =>
                /\ lock = t
                /\ pc'[t] \in ReadLoopPcs => pc'[t] = pc[t] /\ lock' = t
                /\ pc'[t] \notin ReadLoopPcs =>
                       /\ pc'[t] = "idle"
                       /\ frame'[t].returned = frame[t].op
                       /\ frame'[t].val = "KEY_ENTER"
                       /\ lock' = NoThread
                /\ \A u \in Threads \ { t } :
                       pc'[u] # pc[u] \/ frame'[u] # frame[u] =>
                           pc'[t] = pc[t] /\ frame'[t] = frame[t] ]_vars

\* C26's case: a prompt has returned what was typed, on KEY_ENTER, while
\* another thread's call waits for the lock
C26_Witness ==
    \E t \in Threads, u \in Threads :
        /\ frame[t].returned = "input"
        /\ frame[t].val = "KEY_ENTER"
        /\ frame[t].result # << >>
        /\ pc[u] = "cu_acquire"

\* C27 (SpecPrompt), as claimed: while ask_list waits for a key, exactly one
\* item is on the screen in reverse video, the item at index; the item
\* returned is that item.
C27_OneItemInverted ==
    \A t \in Threads :
        pc[t] = "al_loop" \/ frame[t].returned = "ask_list" =>
            frame[t].inverted = { frame[t].index }

\* the places where a thread waits for self._lock
AcquirePcs == { "cu_acquire", "in_acquire", "al_acquire", "yn_acquire" }

\* C21 (SpecWrapper), as claimed: the except clause of function_wrapper runs
\* to its end whatever the callback was in when it raised: at none of its
\* acquisitions of the lock (in self.error's console() and in its own
\* _check_update) does the thread wait for a lock that it holds itself and
\* that only it could release.
C21_HandlerRunsToEnd ==
    \A t \in Threads :
        frame[t].op \in { "wrapper_error", "wrapper_check" } /\ pc[t] \in AcquirePcs
            => lock # t

\* C30 (SpecLive): no thread is at an acquisition of the lock while it holds
\* the lock, and every call that a thread has started returns in the end.
C30_CallsReturn ==
    /\ [](\A t \in Threads : pc[t] \in AcquirePcs => lock # t)
    /\ \A t \in Threads : (pc[t] # "idle") ~> (pc[t] = "idle")

\* C30's case: a prompt waits for the lock that another prompt, waiting for
\* its key, holds
C30_Witness ==
    \E t \in Threads, u \in Threads :
        /\ pc[t] = "yn_loop"
        /\ lock = t
        /\ pc[u] = "al_acquire"

\* C31 (SpecCounter): in a run without set_low_latency_refresh_interval,
\* when _check_update returns the counter is at least 0 and below
\* update_counter_interval; the call redraws on the interval path (the
\* counter goes to 0 and the screen is drawn from the buffers) if the
\* incremented counter has reached the interval, and else it keeps the
\* incremented counter and leaves the screen alone.
C31_CounterBelowInterval ==
    [][ \A t \in Threads :
            EndsCheckUpdate(t) =>
                /\ 0 <= update_counter'
                /\ update_counter' * IntervalScale < update_counter_interval'
                /\ IF (update_counter + 1) * IntervalScale >= update_counter_interval
                   THEN /\ update_counter' = 0
                        /\ last_cu'.interval_redraw
                        /\ screen' = Redrawn(contents_console_a, contents_console_b,
                                             console_scrollback, term_width,
                                             term_height, title, rich)
                   ELSE /\ update_counter' = update_counter + 1
                        /\ ~last_cu'.interval_redraw
                        /\ screen' = screen ]_vars

\* C31's case: the counter has reached the interval, the call has redrawn,
\* and a later call has counted again
C31_Witness ==
    /\ screen.drawn
    /\ update_counter = 1
    /\ last_cu.called
    /\ ~last_cu.interval_redraw

====
